---- MODULE Spec2Model ----
(***************************************************************************)
(* Model of tools/clean_and_index.py: heading-identifier stabilisation     *)
(* (slugify, unique_id, is_zendesk_generated_id,                           *)
(* add_heading_ids_and_collect) and cross-reference rewriting              *)
(* (rewrite_anchor_href, rewrite_cross_references).                        *)
(*                                                                         *)
(* Text is a sequence of one-character strings.  An absent attribute and   *)
(* an empty attribute are both the empty sequence: the code reads          *)
(* attributes through `h.get("id") or ""`, `has_attr("id") and el["id"]`   *)
(* and `a.get("href", "")`, which do not tell them apart.                  *)
(***************************************************************************)
EXTENDS Integers, Sequences, FiniteSets, TLC

VARIABLES doc0, doc, replace_existing_ids, pc, used_ids, stack, rows, id_map,
          hcur, current_ids, lcur, changed_count, broken, runs, calls

vars == <<doc0, doc, replace_existing_ids, pc, used_ids, stack, rows, id_map,
          hcur, current_ids, lcur, changed_count, broken, runs, calls>>

(***************************************************************************)
(* Bounds of the model.                                                    *)
(***************************************************************************)
MaxElems == 3
MaxRuns == 2
MaxCalls == 3

(***************************************************************************)
(* Characters and character classes.                                       *)
(***************************************************************************)
NBSP == "nbsp"
LowerLetters == <<"a","b","c","d","e","f","g","h","i","j","k","l","m",
                  "n","o","p","q","r","s","t","u","v","w","x","y","z">>
UpperLetters == <<"A","B","C","D","E","F","G","H","I","J","K","L","M",
                  "N","O","P","Q","R","S","T","U","V","W","X","Y","Z">>
DigitChars == <<"0","1","2","3","4","5","6","7","8","9">>
Range(f) == {f[i] : i \in DOMAIN f}
Whitespace == {" ", "\t", "\n", "\r", NBSP}

\* str.lower() on one character
LowerChar(c) ==
  IF c \in Range(UpperLetters)
    THEN LowerLetters[CHOOSE i \in 1..26 : UpperLetters[i] = c]
    ELSE c
Lower(s) == [i \in 1..Len(s) |-> LowerChar(s[i])]

\* str.strip(chars): drop leading and trailing characters of the set
RECURSIVE LStrip(_, _)
LStrip(s, cs) ==
  IF s # <<>> /\ Head(s) \in cs THEN LStrip(Tail(s), cs) ELSE s
RECURSIVE RStrip(_, _)
RStrip(s, cs) ==
  IF s # <<>> /\ s[Len(s)] \in cs THEN RStrip(SubSeq(s, 1, Len(s) - 1), cs) ELSE s
Strip(s, cs) == RStrip(LStrip(s, cs), cs)

\* re.sub(r" ", " ", text)
NbspToSpace(s) == [i \in 1..Len(s) |-> IF s[i] = NBSP THEN " " ELSE s[i]]

\* re.sub(r"[^a-z0-9]+", "-", text): every maximal run of other characters
\* becomes one hyphen
SlugChars == Range(LowerLetters) \cup Range(DigitChars)
RECURSIVE ReplaceRuns(_, _)
ReplaceRuns(s, inRun) ==
  IF s = <<>> THEN <<>>
  ELSE IF Head(s) \in SlugChars THEN <<Head(s)>> \o ReplaceRuns(Tail(s), FALSE)
  ELSE IF inRun THEN ReplaceRuns(Tail(s), TRUE)
  ELSE <<"-">> \o ReplaceRuns(Tail(s), TRUE)

\* re.sub(r"-{2,}", "-", text)
RECURSIVE CollapseHyphens(_)
CollapseHyphens(s) ==
  IF Len(s) < 2 THEN s
  ELSE IF s[1] = "-" /\ s[2] = "-" THEN CollapseHyphens(Tail(s))
  ELSE <<Head(s)>> \o CollapseHyphens(Tail(s))

SectionToken == <<"s","e","c","t","i","o","n">>

slugify(text) ==
  LET t1 == Lower(Strip(text, Whitespace))
      t2 == NbspToSpace(t1)
      t3 == ReplaceRuns(t2, FALSE)
      t4 == Strip(CollapseHyphens(t3), {"-"})
  IN  IF t4 = <<>> THEN SectionToken ELSE t4

\* f"{i}" for an integer i >= 0
RECURSIVE IntToStr(_)
IntToStr(i) ==
  IF i < 10 THEN <<DigitChars[i + 1]>>
  ELSE IntToStr(i \div 10) \o <<DigitChars[(i % 10) + 1]>>

\* f"{base}-{i}"
Suffixed(base, i) == base \o <<"-">> \o IntToStr(i)

\* the while loop of unique_id: the first i, counting up, with base-i unused
RECURSIVE ProbeSuffix(_, _, _)
ProbeSuffix(base, used, i) ==
  IF Suffixed(base, i) \in used THEN ProbeSuffix(base, used, i + 1) ELSE i

\* unique_id with the probe started at 1 instead of 2
unique_id_ProbesFromOne(base, used) ==
  IF base \notin used
    THEN [final |-> base, used |-> used \cup {base}]
    ELSE LET final == Suffixed(base, ProbeSuffix(base, used, 1))
         IN  [final |-> final, used |-> used \cup {final}]

\* unique_id without the used.add(final) that follows the loop
unique_id_ForgetsToken(base, used) ==
  IF base \notin used
    THEN [final |-> base, used |-> used \cup {base}]
    ELSE [final |-> Suffixed(base, ProbeSuffix(base, used, 2)), used |-> used]

\* unique_id(base, used): the token returned and the used set it leaves
unique_id(base, used) ==
  IF base \notin used
    THEN [final |-> base, used |-> used \cup {base}]
    ELSE LET final == Suffixed(base, ProbeSuffix(base, used, 2))
         IN  [final |-> final, used |-> used \cup {final}]

\* int(tag_name[1])
heading_level(tag) == CHOOSE d \in 0..9 : DigitChars[d + 1] = tag[2]

ZendeskMinLen == 20
\* re.fullmatch(r"h_[0-9A-Z]{20,}", val or "")
is_zendesk_generated_id(val) ==
  /\ Len(val) >= 2 + ZendeskMinLen
  /\ val[1] = "h"
  /\ val[2] = "_"
  /\ \A i \in 3..Len(val) : val[i] \in Range(DigitChars) \cup Range(UpperLetters)

HEADING_TAGS == {<<"h", DigitChars[l + 1]>> : l \in 1..6}


(***************************************************************************)
(* The document: the elements of the parsed tree in document order, each   *)
(* with its tag name, id attribute, visible text and href attribute.       *)
(***************************************************************************)
Elem(tag, id, text, href) == [tag |-> tag, id |-> id, text |-> text, href |-> href]

ZID == <<"h","_","0","1","F","2","G","C","3","6","K","S","S","Z","J","M",
         "S","4","V","P","K","8","S","S","S","Z","7","B">>

Headings ==
  { Elem(<<"h","1">>, <<>>,       <<"A">>,         <<>>),
    Elem(<<"h","2">>, ZID,        <<"A"," ","2">>, <<>>),
    Elem(<<"h","3">>, <<"a">>,    <<"B">>,         <<>>),
    Elem(<<"h","2">>, <<" ","a">>, <<"A">>,        <<>>),
    Elem(<<"h","1">>, <<" ">>,    <<"B">>,         <<>>) }

Others ==
  { Elem(<<"p">>, <<"a","-","2">>, <<>>, <<>>) }

Links ==
  { Elem(<<"a">>, <<>>, <<"t">>, <<"#">> \o ZID),
    Elem(<<"a">>, <<>>, <<"t">>, <<"p","#">> \o ZID),
    Elem(<<"a">>, <<>>, <<"t">>, <<"#","a","#">>),
    Elem(<<"a">>, <<>>, <<"t">>, <<"#","x","#","a">>),
    Elem(<<"a">>, <<>>, <<"t">>, <<"#","x">>),
    Elem(<<"a">>, <<>>, <<"t">>, <<"p">>),
    Elem(<<"a">>, <<>>, <<"t">>, <<>>) }

Elements == Headings \cup Others \cup Links

Documents == UNION { [1..n -> Elements] : n \in 1..MaxElems }

\* soup.find_all(tags): the positions, in document order, of the elements
\* whose tag is one of tags
RECURSIVE FindAllFrom(_, _, _)
FindAllFrom(d, tags, i) ==
  IF i > Len(d) THEN <<>>
  ELSE (IF d[i].tag \in tags THEN <<i>> ELSE <<>>) \o FindAllFrom(d, tags, i + 1)
find_all(d, tags) == FindAllFrom(d, tags, 1)

\* the set built from `el.has_attr("id") and el["id"]` over soup.find_all(True)
CollectIds(d) == { d[i].id : i \in {j \in 1..Len(d) : d[j].id # <<>>} }

EmptyMap == [x \in {} |-> <<>>]

\* id_map[old] = hid
MapPut(m, k, v) == [x \in DOMAIN m \cup {k} |-> IF x = k THEN v ELSE m[x]]

\* should_replace without the replace_existing_ids flag
should_replace_IgnoresFlag(current, replace) ==
  current = <<>> \/ is_zendesk_generated_id(current)

\* should_replace = replace_existing_ids and (not current or is_zendesk_generated_id(current))
should_replace(current, replace) ==
  replace /\ (current = <<>> \/ is_zendesk_generated_id(current))

\* the stack update without the loop that pops the deeper levels
StackPut_KeepsDeeper(st, lvl, title, hid) ==
  [l \in DOMAIN st \cup {lvl} |-> IF l = lvl THEN <<title, hid>> ELSE st[l]]

\* stack[lvl] = (title, hid), then stack.pop(deeper, None) for lvl < deeper < 7
StackPut(st, lvl, title, hid) ==
  [l \in (DOMAIN st \cup {lvl}) \ ((lvl + 1)..6) |->
     IF l = lvl THEN <<title, hid>> ELSE st[l]]

\* [stack[i][0] for i in range(1, lvl + 1) if i in stack], from level i on
RECURSIVE PathTitles(_, _, _)
PathTitles(st, i, lvl) ==
  IF i > lvl THEN <<>>
  ELSE (IF i \in DOMAIN st THEN <<st[i][1]>> ELSE <<>>) \o PathTitles(st, i + 1, lvl)

\* sep.join(parts)
RECURSIVE Join(_, _)
Join(parts, sep) ==
  IF parts = <<>> THEN <<>>
  ELSE IF Len(parts) = 1 THEN parts[1]
  ELSE parts[1] \o sep \o Join(Tail(parts), sep)

PathSep == <<" ", ">", " ">>

\* the assignment with a rename recorded for a kept identifier too
AssignHeadingId_MapsKeptIds(h, used, idm, replace) ==
  LET current == Strip(h.id, Whitespace)
  IN  IF should_replace(current, replace)
        THEN LET r == unique_id(slugify(h.text), used)
             IN  [hid |-> r.final, used |-> r.used,
                  id_map |-> IF current # <<>> THEN MapPut(idm, current, r.final) ELSE idm]
        ELSE IF current # <<>>
          THEN [hid |-> current, used |-> used \cup {current},
                id_map |-> MapPut(idm, current, current)]
          ELSE LET r == unique_id(slugify(h.text), used)
               IN  [hid |-> r.final, used |-> r.used \cup {r.final}, id_map |-> idm]

\* the identifier one heading gets, and the used set and id map it leaves
AssignHeadingId(h, used, idm, replace) ==
  LET current == Strip(h.id, Whitespace)
  IN  IF should_replace(current, replace)
        THEN LET r == unique_id(slugify(h.text), used)
             IN  [hid |-> r.final, used |-> r.used,
                  id_map |-> IF current # <<>> THEN MapPut(idm, current, r.final) ELSE idm]
        ELSE IF current # <<>>
          THEN [hid |-> current, used |-> used \cup {current}, id_map |-> idm]
          ELSE LET r == unique_id(slugify(h.text), used)
               IN  [hid |-> r.final, used |-> r.used \cup {r.final}, id_map |-> idm]

\* href.rsplit("#", 1) for an href that holds a "#"
LastHash(href) == CHOOSE i \in 1..Len(href) :
  href[i] = "#" /\ \A j \in (i + 1)..Len(href) : href[j] # "#"
RSplitHash(href) ==
  [base |-> SubSeq(href, 1, LastHash(href) - 1),
   frag |-> SubSeq(href, LastHash(href) + 1, Len(href))]

\* rewrite_anchor_href with the text before the "#" dropped
rewrite_anchor_href_DropsPrefix(href, idm) ==
  IF href = <<>> \/ "#" \notin Range(href) THEN [href |-> href, changed |-> FALSE]
  ELSE LET sp == RSplitHash(href)
       IN  IF sp.frag = <<>> THEN [href |-> href, changed |-> FALSE]
           ELSE IF sp.frag \in DOMAIN idm
             THEN [href |-> <<"#">> \o idm[sp.frag], changed |-> TRUE]
             ELSE [href |-> href, changed |-> FALSE]

rewrite_anchor_href(href, idm) ==
  IF href = <<>> \/ "#" \notin Range(href) THEN [href |-> href, changed |-> FALSE]
  ELSE LET sp == RSplitHash(href)
       IN  IF sp.frag = <<>> THEN [href |-> href, changed |-> FALSE]
           ELSE IF sp.frag \in DOMAIN idm
             THEN [href |-> IF sp.base # <<>> THEN sp.base \o <<"#">> \o idm[sp.frag]
                                              ELSE <<"#">> \o idm[sp.frag],
                   changed |-> TRUE]
             ELSE [href |-> href, changed |-> FALSE]

\* the records the two checks after the rewrite append for an unchanged link
BrokenRecords(a, ids) ==
  LET href == a.href
      rec == [href |-> href, text |-> a.text]
      first == IF href[1] = "#"
                  /\ Tail(href) # <<>>
                  /\ Tail(href) \notin ids
                 THEN <<rec>> ELSE <<>>
      second == IF "#" \in Range(href)
                   /\ RSplitHash(href).frag # <<>>
                   /\ RSplitHash(href).frag \notin ids
                   /\ is_zendesk_generated_id(RSplitHash(href).frag)
                  THEN <<rec>> ELSE <<>>
  IN  first \o second

(***************************************************************************)
(* The pipeline of main(): add_heading_ids_and_collect, then               *)
(* rewrite_cross_references, one loop iteration per step.                  *)
(***************************************************************************)
Init ==
  /\ doc0 \in Documents
  /\ doc = doc0
  /\ replace_existing_ids \in BOOLEAN
  /\ pc = "start"
  /\ used_ids = {}
  /\ stack = EmptyMap
  /\ rows = <<>>
  /\ id_map = EmptyMap
  /\ hcur = 1
  /\ current_ids = {}
  /\ lcur = 1
  /\ changed_count = 0
  /\ broken = <<>>
  /\ runs = 0
  /\ calls = <<>>

IndexStart ==
  /\ pc = "start"
  /\ used_ids' = CollectIds(doc)
  /\ stack' = EmptyMap
  /\ rows' = <<>>
  /\ id_map' = EmptyMap
  /\ hcur' = 1
  /\ pc' = "indexing"
  /\ UNCHANGED <<doc0, doc, replace_existing_ids, current_ids, lcur,
                 changed_count, broken, runs, calls>>

IndexHeading ==
  /\ pc = "indexing"
  /\ hcur <= Len(find_all(doc, HEADING_TAGS))
  /\ LET pos == find_all(doc, HEADING_TAGS)[hcur]
         h == doc[pos]
         title == h.text
         r == AssignHeadingId(h, used_ids, id_map, replace_existing_ids)
         lvl == heading_level(h.tag)
         st == StackPut(stack, lvl, title, r.hid)
     IN  /\ doc' = [doc EXCEPT ![pos].id = r.hid]
         /\ used_ids' = r.used
         /\ id_map' = r.id_map
         /\ stack' = st
         /\ rows' = Append(rows, [level |-> lvl, heading |-> title, id |-> r.hid,
                                  absolutePath |-> Join(PathTitles(st, 1, lvl), PathSep),
                                  anchor |-> <<"#">> \o r.hid])
  /\ hcur' = hcur + 1
  /\ UNCHANGED <<doc0, replace_existing_ids, pc, current_ids, lcur,
                 changed_count, broken, runs, calls>>

IndexReturn ==
  /\ pc = "indexing"
  /\ hcur > Len(find_all(doc, HEADING_TAGS))
  /\ pc' = "indexed"
  /\ UNCHANGED <<doc0, doc, replace_existing_ids, used_ids, stack, rows, id_map,
                 hcur, current_ids, lcur, changed_count, broken, runs, calls>>

RewriteStart ==
  /\ pc \in {"indexed", "rewritten"}
  /\ runs < MaxRuns
  /\ broken' = <<>>
  /\ changed_count' = 0
  /\ current_ids' = CollectIds(doc)
  /\ lcur' = 1
  /\ pc' = "rewriting"
  /\ UNCHANGED <<doc0, doc, replace_existing_ids, used_ids, stack, rows, id_map,
                 hcur, runs, calls>>

RewriteLink ==
  /\ pc = "rewriting"
  /\ lcur <= Len(find_all(doc, {<<"a">>}))
  /\ LET pos == find_all(doc, {<<"a">>})[lcur]
         a == doc[pos]
         r == rewrite_anchor_href(a.href, id_map)
     IN  IF a.href = <<>>
           THEN UNCHANGED <<doc, changed_count, broken>>
           ELSE IF r.changed
             THEN /\ doc' = [doc EXCEPT ![pos].href = r.href]
                  /\ changed_count' = changed_count + 1
                  /\ UNCHANGED broken
             ELSE /\ broken' = broken \o BrokenRecords(a, current_ids)
                  /\ UNCHANGED <<doc, changed_count>>
  /\ lcur' = lcur + 1
  /\ UNCHANGED <<doc0, replace_existing_ids, pc, used_ids, stack, rows, id_map,
                 hcur, current_ids, runs, calls>>

RewriteReturn ==
  /\ pc = "rewriting"
  /\ lcur > Len(find_all(doc, {<<"a">>}))
  /\ runs' = runs + 1
  /\ pc' = "rewritten"
  /\ UNCHANGED <<doc0, doc, replace_existing_ids, used_ids, stack, rows, id_map,
                 hcur, current_ids, lcur, changed_count, broken, calls>>

Next ==
  \/ IndexStart
  \/ IndexHeading
  \/ IndexReturn
  \/ RewriteStart
  \/ RewriteLink
  \/ RewriteReturn

Spec == Init /\ [][Next]_vars

(***************************************************************************)
(* The Identifier Allocator on its own: any prior used set, then           *)
(* successive calls of unique_id, each on the used set the last one left.  *)
(***************************************************************************)
AllocTokens == { <<"a">>, <<"a","-","2">>, <<"a","-","3">>, <<"a","-","2","-","2">> }
AllocBases == { <<"a">>, <<"a","-","2">> }

InitAlloc ==
  /\ doc0 = <<>>
  /\ doc = <<>>
  /\ replace_existing_ids = TRUE
  /\ pc = "alloc"
  /\ used_ids \in SUBSET AllocTokens
  /\ stack = EmptyMap
  /\ rows = <<>>
  /\ id_map = EmptyMap
  /\ hcur = 1
  /\ current_ids = {}
  /\ lcur = 1
  /\ changed_count = 0
  /\ broken = <<>>
  /\ runs = 0
  /\ calls = <<>>

Alloc ==
  /\ pc = "alloc"
  /\ Len(calls) < MaxCalls
  /\ \E base \in AllocBases :
       LET r == unique_id(base, used_ids)
       IN  /\ used_ids' = r.used
           /\ calls' = Append(calls, [base |-> base, before |-> used_ids,
                                      final |-> r.final, after |-> r.used])
  /\ UNCHANGED <<doc0, doc, replace_existing_ids, pc, stack, rows, id_map, hcur,
                 current_ids, lcur, changed_count, broken, runs>>

NextAlloc == Alloc

SpecAlloc == InitAlloc /\ [][NextAlloc]_vars

(***************************************************************************)
(* Properties.                                                             *)
(***************************************************************************)
HeadingPos(d) == Range(find_all(d, HEADING_TAGS))
LinkPos(d) == Range(find_all(d, {<<"a">>}))
HasHash(href) == "#" \in Range(href)
\* the text after the last "#" of an href that holds one
Fragment(href) == RSplitHash(href).frag
\* the link the next iteration of the rewriting loop visits
AtLink == pc = "rewriting" /\ lcur <= Len(find_all(doc, {<<"a">>}))
CurLink == doc[find_all(doc, {<<"a">>})[lcur]]

\* C1: after add_heading_ids_and_collect returns, no heading's id is the id of
\* any other element of the document, heading or not.
C1_HeadingIdsUnique ==
  pc = "indexed" =>
    \A i \in HeadingPos(doc) : \A j \in 1..Len(doc) :
      j # i => doc[j].id # doc[i].id

\* C2: once the rewrite has run, every link whose href ended in "#old" for a
\* key old of the id map is the same prefix followed by "#new", and every value
\* of the id map is the id of an element of the final document.
C2_RewriteResolves ==
  pc = "rewritten" =>
    \A old \in DOMAIN id_map :
      /\ id_map[old] \in CollectIds(doc)
      /\ \A j \in LinkPos(doc0) :
           LET h0 == doc0[j].href
           IN  \A p \in 0..Len(h0) :
                 SubSeq(h0, p + 1, Len(h0)) = <<"#">> \o old
                   => doc[j].href = SubSeq(h0, 1, p) \o <<"#">> \o id_map[old]

\* C2 reached: two headings shared one editor id and a link "p#old" was rewritten.
C2_Witness ==
  /\ pc = "rewritten"
  /\ \E old \in DOMAIN id_map :
       /\ Cardinality({i \in HeadingPos(doc0) : doc0[i].id = old}) >= 2
       /\ \E j \in LinkPos(doc0) :
            /\ doc0[j].href = <<"p", "#">> \o old
            /\ doc[j].href = <<"p", "#">> \o id_map[old]

\* C3: a pure-fragment link "#f", f non-empty, holding no further "#", neither
\* a key of the id map nor an id of the document, gets exactly one
\* BrokenLinkRecord when the rewriting loop visits it.
C3_ExactlyOneRecord ==
  [][ ( /\ AtLink
        /\ Len(CurLink.href) >= 2
        /\ CurLink.href[1] = "#"
        /\ ~HasHash(Tail(CurLink.href))
        /\ Tail(CurLink.href) \notin DOMAIN id_map
        /\ Tail(CurLink.href) \notin CollectIds(doc) )
      => Len(broken') = Len(broken) + 1 ]_vars

\* C4: unique_id returns base when base is unused and otherwise base-k for the
\* least k >= 2 with base-k unused; the token was unused before the call, and
\* the call adds it, and nothing else, to the used set.
C4_UniqueIdContract ==
  \A n \in 1..Len(calls) :
    LET c == calls[n]
    IN  /\ c.base \notin c.before => c.final = c.base
        /\ c.base \in c.before =>
             \E k \in 2..(Cardinality(c.before) + 2) :
               /\ c.final = Suffixed(c.base, k)
               /\ \A j \in 2..(k - 1) : Suffixed(c.base, j) \in c.before
        /\ c.final \notin c.before
        /\ c.after = c.before \cup {c.final}

\* C4 reached: a call found base and base-2 used and returned base-3.
C4_Witness ==
  \E n \in 1..Len(calls) :
    /\ calls[n].base \in calls[n].before
    /\ Suffixed(calls[n].base, 2) \in calls[n].before
    /\ calls[n].final = Suffixed(calls[n].base, 3)

\* the suffix number of a token of base's family: 1 for base, k for base-k
Token(base, k) == IF k = 1 THEN base ELSE Suffixed(base, k)
SuffixOf(c) ==
  CHOOSE k \in 1..(Cardinality(c.before) + 2) : c.final = Token(c.base, k)
\* calls i < j are successive calls with the same base
SuccessiveSameBase(i, j) ==
  /\ i < j
  /\ calls[i].base = calls[j].base
  /\ \A m \in (i + 1)..(j - 1) : calls[m].base # calls[i].base

\* C5 as stated: successive calls with the same base return consecutive
\* suffixes, whatever the prior used set holds.
C5_NoGaps ==
  \A i \in 1..Len(calls) : \A j \in 1..Len(calls) :
    SuccessiveSameBase(i, j) => SuffixOf(calls[j]) = SuffixOf(calls[i]) + 1

\* C5 as amended: successive calls with the same base return strictly
\* increasing suffixes, never a token twice, and a suffix is skipped only when
\* its token was already in the used set at the time of the call.
C5_LowestFreeSuffixes ==
  /\ \A j \in 1..Len(calls) :
       \A k \in 1..(SuffixOf(calls[j]) - 1) :
         Token(calls[j].base, k) \in calls[j].before
  /\ \A i \in 1..Len(calls) : \A j \in 1..Len(calls) :
       i < j => calls[i].final # calls[j].final
  /\ \A i \in 1..Len(calls) : \A j \in 1..Len(calls) :
       SuccessiveSameBase(i, j) => SuffixOf(calls[i]) < SuffixOf(calls[j])

\* C5 reached: successive calls with one base returned base, then base-3.
C5_Witness ==
  \E i \in 1..Len(calls) : \E j \in 1..Len(calls) :
    /\ SuccessiveSameBase(i, j)
    /\ SuffixOf(calls[i]) = 1
    /\ SuffixOf(calls[j]) = 3

\* C6: a link whose href holds no "#", or nothing after its last "#", is left
\* as it is: href unchanged, not counted, no BrokenLinkRecord.
C6_NoFragmentUntouched ==
  [][ ( /\ AtLink
        /\ (~HasHash(CurLink.href) \/ Fragment(CurLink.href) = <<>>) )
      => /\ doc' = doc
         /\ changed_count' = changed_count
         /\ broken' = broken ]_vars

\* the titles of the ancestors still open at the n-th heading of hs, by level,
\* with its own title last
HLevel(e) == heading_level(e.tag)
OpenAt(hs, n, l) ==
  { m \in 1..(n - 1) :
      /\ HLevel(hs[m]) = l
      /\ \A m2 \in (m + 1)..(n - 1) : HLevel(hs[m2]) > l }
RECURSIVE OpenTitles(_, _, _)
OpenTitles(hs, n, l) ==
  IF l >= HLevel(hs[n]) THEN <<hs[n].text>>
  ELSE (IF OpenAt(hs, n, l) # {}
          THEN <<hs[CHOOSE m \in OpenAt(hs, n, l) : TRUE].text>> ELSE <<>>)
       \o OpenTitles(hs, n, l + 1)
HeadingsOf(d) == [n \in 1..Len(find_all(d, HEADING_TAGS)) |-> d[find_all(d, HEADING_TAGS)[n]]]

\* C7: the row of each heading carries the " > "-joined titles of its open
\* ancestors in level order, its own title last, and after a heading of level
\* L the path stack holds no level above L.
C7_AbsolutePath ==
  /\ \A n \in 1..Len(rows) :
       rows[n].absolutePath = Join(OpenTitles(HeadingsOf(doc0), n, 1), PathSep)
  /\ rows # <<>> => \A l \in DOMAIN stack : l <= rows[Len(rows)].level

\* C7 reached: headings h2, h1, h3; the h2 is closed when the h3 is indexed.
C7_Witness ==
  /\ pc = "indexed"
  /\ Len(rows) = 3
  /\ rows[1].level = 2
  /\ rows[2].level = 1
  /\ rows[3].level = 3
  /\ rows[3].absolutePath = rows[2].heading \o PathSep \o rows[3].heading

Trimmed(e) == Strip(e.id, Whitespace)

C9_BrokenMeansUnresolved ==
  [][ (AtLink /\ broken' # broken)
      => /\ HasHash(CurLink.href)
         /\ Fragment(CurLink.href) # <<>>
         /\ Fragment(CurLink.href) \notin CollectIds(doc) ]_vars

\* C10: no value of the id map is one of its keys (every key matches the
\* editor pattern, every value is made of slug characters and hyphens), and a
\* run of the rewrite after a completed one changes no href and counts none.
C10_RewriteIdempotent ==
  [][ /\ \A k \in DOMAIN id_map :
           /\ id_map[k] \notin DOMAIN id_map
           /\ is_zendesk_generated_id(k)
           /\ Range(id_map[k]) \subseteq SlugChars \cup {"-"}
      /\ runs >= 1 => (doc' = doc /\ changed_count' = 0) ]_vars

\* C10 reached: a second run completed after a first run that rewrote a link.
C10_Witness ==
  /\ pc = "rewritten"
  /\ runs = 2
  /\ changed_count = 0
  /\ \E j \in LinkPos(doc0) : doc[j].href # doc0[j].href

====
